---- MODULE Spec2Model ----
EXTENDS Integers, Sequences, FiniteSets, TLC

(***************************************************************************)
(* A model of the naive Bayesian classifier of bayesian.go: the Classifier *)
(* struct, its constructors, Learn / Observe / AddClass /                  *)
(* ConvertTermsFreqToTfIdf, the three scoring operations, the per-class    *)
(* files and the gob encoding of the whole classifier.  Spec is one caller *)
(* making whole calls; ConcSpec is several goroutines on one classifier,   *)
(* a call being the steps it takes around c.mu.                            *)
(*                                                                         *)
(* ARITHMETIC.  The program computes in float64.  A float64 value is       *)
(* modelled as one of                                                      *)
(*    "fin"   a real number, held exactly as a quotient of two polynomials *)
(*            in the symbol e = defaultProb (1e-11) with rational          *)
(*            coefficients: 1e-11 does not fit the model checker's         *)
(*            integers, but every value the program forms is built from    *)
(*            small integers and defaultProb by + - * /;                   *)
(*    "ln"    the real number ln(x) for an exact x > 0, x # 1 (a sum of    *)
(*            logarithms is the logarithm of the product);                 *)
(*    "nan", "pinf", "ninf"   the IEEE-754 special values.                 *)
(* What is kept of float64: division by zero, 0/0, log of zero and of      *)
(* negative numbers, NaN comparisons, underflow to zero (a magnitude of    *)
(* order e^30 = 1e-330 is below the least subnormal 2^-1074) and overflow. *)
(* What is abstracted: the rounding of the 53-bit significand (results are *)
(* exact), and the sign of zero (every zero divisor the program forms is   *)
(* +0).  log1p, which the TF-IDF transform multiplies and adds, is         *)
(* replaced by its rational approximant 2x/(2+x).                          *)
(***************************************************************************)

\* ------------------------------------------------------------ bounds

\* the calls on one classifier that change it, score a document or write a
\* file (a call that panics or returns early changes nothing and is not counted)
MaxCalls == 3

\* ------------------------------------------------------- integer helpers

Abs(i) == IF i < 0 THEN -i ELSE i

Sgn(i) == IF i < 0 THEN -1 ELSE IF i = 0 THEN 0 ELSE 1

RECURSIVE Gcd(_, _)
Gcd(a, b) == IF b = 0 THEN a ELSE Gcd(b, a % b)

\* ------------------------------------- polynomials in e = defaultProb
\* A polynomial is a sequence of terms (n/d) * e^k, k strictly increasing,
\* n # 0, d > 0, gcd(n, d) = 1.  <<>> is the zero polynomial.

\* the term (n/d) * e^k in lowest terms, g the gcd of |n| and |d|
Reduced(k, n, d, g) == [k |-> k, n |-> Sgn(d) * (n \div g), d |-> Abs(d) \div g]

Term(k, n, d) == Reduced(k, n, d, Gcd(Abs(n), Abs(d)))

TInv(t) == [k |-> -t.k, n |-> Sgn(t.n) * t.d, d |-> Abs(t.n)]

\* the product of two terms, cancelling across (g1, g2) before multiplying
Cancelled(a, b, g1, g2) ==
    [k |-> a.k + b.k, n |-> (a.n \div g1) * (b.n \div g2),
     d |-> (a.d \div g2) * (b.d \div g1)]

TMul(a, b) == Cancelled(a, b, Gcd(Abs(a.n), b.d), Gcd(Abs(b.n), a.d))

\* the sum of two terms of the same power, over the least common denominator
OverLcm(a, b, g) ==
    Term(a.k, a.n * (b.d \div g) + b.n * (a.d \div g), a.d * (b.d \div g))

TAdd(a, b) == OverLcm(a, b, Gcd(a.d, b.d))

\* a polynomial from its lowest term and the rest; a zero term is dropped
Cons(t, rest) == IF t.n = 0 THEN rest ELSE <<t>> \o rest

RECURSIVE PAdd(_, _)
PAdd(p, q) ==
    IF p = <<>> THEN q
    ELSE IF q = <<>> THEN p
    ELSE IF Head(p).k < Head(q).k THEN <<Head(p)>> \o PAdd(Tail(p), q)
    ELSE IF Head(q).k < Head(p).k THEN <<Head(q)>> \o PAdd(p, Tail(q))
    ELSE Cons(TAdd(Head(p), Head(q)), PAdd(Tail(p), Tail(q)))

PScale(p, t) == [i \in 1..Len(p) |-> TMul(p[i], t)]

PNeg(p) == [i \in 1..Len(p) |-> [p[i] EXCEPT !.n = -p[i].n]]

RECURSIVE PMul(_, _)
PMul(p, q) ==
    IF p = <<>> \/ q = <<>> THEN <<>>
    ELSE PAdd(PScale(q, Head(p)), PMul(Tail(p), q))

POne == <<[k |-> 0, n |-> 1, d |-> 1]>>

\* ------------------------------------------------------ float64 values

NaN == [t |-> "nan", num |-> <<>>, den |-> <<>>]

PInf == [t |-> "pinf", num |-> <<>>, den |-> <<>>]

NInf == [t |-> "ninf", num |-> <<>>, den |-> <<>>]

Zero == [t |-> "fin", num |-> <<>>, den |-> POne]

One == [t |-> "fin", num |-> POne, den |-> POne]

\* defaultProb^UnderflowPow = 1e-330 is below 2^-1075 and rounds to zero;
\* defaultProb^(UnderflowPow-1) = 1e-319 is a subnormal float64.
UnderflowPow == 30

\* defaultProb^(-OverflowPow) = 1e319 is above the largest float64.
OverflowPow == 29

\* the finite value num/den
Fin(num, den) == IF num = den THEN One ELSE [t |-> "fin", num |-> num, den |-> den]

\* num and den divided by the term t
Over(num, den, t) == Fin(PScale(num, t), PScale(den, t))

\* the quotient num/den (den # 0) in normal form: the lowest term of den is 1
Quot(num, den) == IF num = <<>> THEN Zero ELSE Over(num, den, TInv(Head(den)))

\* the sign of a finite value: e is tiny, so the lowest term decides
Sign(x) == IF x.num = <<>> THEN 0 ELSE Sgn(Head(x.num).n)

\* a float64 result: out of range magnitudes become 0 or an infinity
Range(x) ==
    IF x.num = <<>> THEN x
    ELSE IF Head(x.num).k >= UnderflowPow THEN Zero
    ELSE IF Head(x.num).k <= -OverflowPow THEN (IF Sign(x) > 0 THEN PInf ELSE NInf)
    ELSE x

RAdd(a, b) ==
    IF a.den = b.den THEN Fin(PAdd(a.num, b.num), a.den)
    ELSE Quot(PAdd(PMul(a.num, b.den), PMul(b.num, a.den)), PMul(a.den, b.den))

RNeg(a) == [a EXCEPT !.num = PNeg(a.num)]

RMul(a, b) == Quot(PMul(a.num, b.num), PMul(a.den, b.den))

\* b # 0
RDiv(a, b) == Quot(PMul(a.num, b.den), PMul(a.den, b.num))

\* the sign of a - b for finite a, b
Cmp(a, b) == Sign(RAdd(a, RNeg(b)))

FromRat(n, d) == [t |-> "fin", num |-> <<Term(0, n, d)>>, den |-> POne]

\* float64(i) for an int i (exact: the model's integers are far below 2^53)
FromInt(i) == IF i = 0 THEN Zero ELSE [t |-> "fin", num |-> <<[k |-> 0, n |-> i, d |-> 1]>>, den |-> POne]

\* the exact argument x of a value ln(x)
Arg(l) == [t |-> "fin", num |-> l.num, den |-> l.den]

\* ln(x) for an exact finite x > 0
Ln(x) == IF x = One THEN Zero ELSE [t |-> "ln", num |-> x.num, den |-> x.den]

IsInf(x) == x.t \in {"pinf", "ninf"}

\* the sign of a finite or infinite value of the linear domain
FSign(x) == IF x.t = "pinf" THEN 1 ELSE IF x.t = "ninf" THEN -1 ELSE Sign(x)

\* the infinity of sign s, NaN for s = 0
Inf(s) == IF s = 0 THEN NaN ELSE IF s > 0 THEN PInf ELSE NInf

\* the exact x of a log-domain value ln(x); 0 is ln(1)
LnArg(x) == CASE x.t = "ln" -> Arg(x) [] x = Zero -> One

FNeg(x) ==
    CASE x.t = "nan" -> NaN
      [] x.t = "pinf" -> NInf
      [] x.t = "ninf" -> PInf
      [] x.t = "fin" -> RNeg(x)
      [] x.t = "ln" -> Ln(RDiv(One, Arg(x)))

\* x + y
FAdd(x, y) ==
    CASE x.t = "nan" \/ y.t = "nan" -> NaN
      [] IsInf(x) /\ IsInf(y) -> IF x.t = y.t THEN x ELSE NaN
      [] IsInf(x) -> x
      [] IsInf(y) -> y
      [] x.t = "fin" /\ y.t = "fin" -> Range(RAdd(x, y))
      [] OTHER -> Ln(RMul(LnArg(x), LnArg(y)))

FSub(x, y) == FAdd(x, FNeg(y))

\* x * y
FMul(x, y) ==
    CASE x.t = "nan" \/ y.t = "nan" -> NaN
      [] IsInf(x) \/ IsInf(y) -> Inf(FSign(x) * FSign(y))
      [] x.t = "fin" /\ y.t = "fin" -> Range(RMul(x, y))

\* x / y (a zero divisor is +0)
FDiv(x, y) ==
    CASE x.t = "nan" \/ y.t = "nan" -> NaN
      [] IsInf(x) /\ IsInf(y) -> NaN
      [] IsInf(x) -> IF FSign(y) >= 0 THEN x ELSE FNeg(x)
      [] IsInf(y) -> Zero
      [] x.t = "fin" /\ y.t = "fin" ->
            IF y.num = <<>> THEN Inf(Sign(x)) ELSE Range(RDiv(x, y))

\* the operand x of a comparison with y, as an exact finite value
Operand(x, y) == IF x.t = "ln" \/ y.t = "ln" THEN LnArg(x) ELSE x

\* the order of x and y: -1, 0, 1, or 2 when a NaN makes them unordered
Ord(x, y) ==
    CASE x.t = "nan" \/ y.t = "nan" -> 2
      [] IsInf(x) \/ IsInf(y) ->
            IF x.t = y.t THEN 0
            ELSE IF x.t = "ninf" \/ y.t = "pinf" THEN -1
            ELSE 1
      [] OTHER -> Cmp(Operand(x, y), Operand(y, x))

\* x < y
FLt(x, y) == Ord(x, y) = -1

\* x == y
FEq(x, y) == Ord(x, y) = 0

\* math.Log(x)
Log(x) ==
    CASE x.t = "nan" -> NaN
      [] x.t = "pinf" -> PInf
      [] x.t = "ninf" -> NaN
      [] x.t = "fin" -> IF Sign(x) = 0 THEN NInf
                        ELSE IF Sign(x) < 0 THEN NaN
                        ELSE Ln(x)

\* math.Exp(x), for the log-domain values logScoresToProbs forms
Exp(x) ==
    CASE x.t = "nan" -> NaN
      [] x.t = "pinf" -> PInf
      [] x.t = "ninf" -> Zero
      [] OTHER -> Range(LnArg(x))

\* 2x/(2+x), the rational approximant of ln(1+x) (exact at 0, increasing)
Pade(x) == FDiv(FAdd(x, x), FAdd(FromInt(2), x))

\* math.Log1p(x) for a finite x, c the sign of x - (-1)
Log1pFinite(x, c) == IF c < 0 THEN NaN ELSE IF c = 0 THEN NInf ELSE Pade(x)

\* math.Log1p(x): NaN below -1, -Inf at -1, +Inf at +Inf
Log1p(x) ==
    CASE x.t = "nan" -> NaN
      [] x.t = "pinf" -> PInf
      [] x.t = "ninf" -> NaN
      [] x.t = "fin" -> Log1pFinite(x, Cmp(x, FromInt(-1)))

\* defaultProb = 1e-11
defaultProb == [t |-> "fin", num |-> <<[k |-> 1, n |-> 1, d |-> 1]>>, den |-> POne]

\* ------------------------------------------------------------- inputs

\* the class names callers use
ClassNames == {"A", "B", "C"}

\* the words handed to Observe
ObserveWords == {"w"}

\* the names of the per-class files written and read
FileNames == {"A", "C"}

\* a word no training document holds
Unseen == "u"

\* the class lists handed to the constructors
CtorLists == {<<>>, <<"A">>, <<"A", "A">>, <<"A", "B">>, <<"B", "A">>}

\* the documents handed to Learn
LearnDocs == {<<>>, <<"w">>, <<"x">>, <<"w", "x", "w">>}

\* the counts handed to Observe
Counts == {-2, -1, 0, 1, 2}

\* a document long enough for defaultProb^n to underflow (TestInduceUnderflow)
LongDoc == [i \in 1..UnderflowPow |-> Unseen]

\* the documents handed to the scoring operations
ScoreDocs == {<<>>, <<"w">>, <<"w", Unseen>>, LongDoc}

\* --------------------------------------------------------------- state

VARIABLES
    alive,            \* a Classifier has been constructed
    Classes,          \* Classifier.Classes
    datas,            \* Classifier.datas: class -> classData
    learned,          \* Classifier.learned
    seen,             \* Classifier.seen
    tfIdf,            \* Classifier.tfIdf
    DidConvertTfIdf,  \* Classifier.DidConvertTfIdf
    files,            \* the per-class files of the directory: name -> bytes
    stream,           \* the bytes WriteGob or WriteToFile wrote last
    calls,            \* the state-changing calls made so far
    ret,              \* what the last call returned
    mu,               \* Classifier.mu: the writer and the readers holding it
    pc                \* where each concurrent caller is in its call

vars == <<alive, Classes, datas, learned, seen, tfIdf, DidConvertTfIdf, files,
          stream, calls, ret, mu, pc>>

classifier == <<Classes, datas, learned, seen, tfIdf, DidConvertTfIdf>>

\* ------------------------------------------------------------ maps

EmptyMap == [w \in {} |-> Zero]

MapPut(f, key, v) == [w \in DOMAIN f \cup {key} |-> IF w = key THEN v ELSE f[w]]

\* a Go map read: the zero value when the key is absent
MapGet(f, key, zero) == IF key \in DOMAIN f THEN f[key] ELSE zero

\* ------------------------------------------------------- classData

newClassData == [Freqs |-> EmptyMap, FreqTfs |-> EmptyMap, Total |-> 0]

getWordProb(d, word) ==
    LET vocab == Cardinality(DOMAIN d.Freqs)
    IN  IF d.Total = 0 \/ vocab = 0 THEN defaultProb
        ELSE LET value == MapGet(d.Freqs, word, Zero)
             IN  FDiv(FAdd(value, One), FAdd(FromInt(d.Total), FromInt(vocab)))

\* ------------------------------------------------------- callers and the lock

\* the goroutines that call the classifier concurrently
NumCallers == 2

Procs == 1..NumCallers

\* a caller that has not called yet
\* w is the classData a ReadClassFromFile has decoded, val the index a scoring
\* method has returned to its wrapper (-1 when it panicked)
Idle == [op |-> "none", at |-> "idle", val |-> 0, w |-> newClassData]

\* the zero sync.RWMutex: no writer (0), no reader
Unlocked == [writer |-> 0, readers |-> {}]

\* ------------------------------------------------------- what a call returns

Ret(op, status, err) ==
    [op |-> op, status |-> status, err |-> err, doc |-> <<>>,
     scores |-> <<>>, inx |-> 0, strict |-> FALSE, val |-> 0]

ScoreRet(op, doc, r) ==
    [op |-> op, status |-> "ok", err |-> r.err, doc |-> doc,
     scores |-> r.scores, inx |-> r.inx, strict |-> r.strict, val |-> 0]

\* ------------------------------------------------------- construction

Init ==
    /\ alive = FALSE
    /\ Classes = <<>>
    /\ datas = [c \in {} |-> newClassData]
    /\ learned = 0
    /\ seen = 0
    /\ tfIdf = FALSE
    /\ DidConvertTfIdf = FALSE
    /\ files = [c \in {} |-> <<>>]
    /\ stream = <<>>
    /\ calls = 0
    /\ ret = Ret("none", "ok", "nil")
    /\ mu = Unlocked
    /\ pc = [p \in Procs |-> Idle]

Range1(s) == {s[i] : i \in 1..Len(s)}

\* the classifier newClassifier returns
Constructed(mode, classes) ==
    /\ alive' = TRUE
    /\ Classes' = classes
    /\ datas' = [c \in Range1(classes) |-> newClassData]
    /\ tfIdf' = mode
    /\ learned' = 0
    /\ seen' = 0
    /\ DidConvertTfIdf' = FALSE
    /\ ret' = Ret("newClassifier", "ok", "nil")

\* a constructor that checks the number of classes only
newClassifierAtLeastTwo(mode, classes) ==
    /\ ~alive
    /\ IF Len(classes) < 2
       THEN /\ ret' = Ret("newClassifier", "panic", "nil")
            /\ UNCHANGED <<alive, classifier>>
       ELSE Constructed(mode, classes)
    /\ UNCHANGED <<files, calls, stream, mu, pc>>

newClassifier(mode, classes) ==
    /\ ~alive
    /\ IF Len(classes) < 2 \/ Cardinality(Range1(classes)) # Len(classes)
       THEN /\ ret' = Ret("newClassifier", "panic", "nil")
            /\ UNCHANGED <<alive, classifier>>
       ELSE Constructed(mode, classes)
    /\ UNCHANGED <<files, calls, stream, mu, pc>>

NewClassifier(classes) == newClassifier(FALSE, classes)

NewClassifierTfIdf(classes) == newClassifier(TRUE, classes)

\* ------------------------------------------------------- AddClass

\* an AddClass that puts the new class in front of the list
AddClassInFront(class) ==
    /\ alive
    /\ IF DidConvertTfIdf
       THEN /\ ret' = Ret("AddClass", "error", "ErrAlreadyConverted")
            /\ UNCHANGED <<Classes, datas, calls>>
       ELSE IF class \in DOMAIN datas
       THEN /\ ret' = Ret("AddClass", "error", "ErrClassExists")
            /\ UNCHANGED <<Classes, datas, calls>>
       ELSE /\ calls < MaxCalls
            /\ Classes' = <<class>> \o Classes
            /\ datas' = MapPut(datas, class, newClassData)
            /\ calls' = calls + 1
            /\ ret' = Ret("AddClass", "ok", "nil")
    /\ UNCHANGED <<alive, learned, seen, tfIdf, DidConvertTfIdf, files, stream, mu, pc>>

\* an AddClass that looks for the class before it looks at DidConvertTfIdf
AddClassExistsFirst(class) ==
    /\ alive
    /\ IF class \in DOMAIN datas
       THEN /\ ret' = Ret("AddClass", "error", "ErrClassExists")
            /\ UNCHANGED <<Classes, datas, calls>>
       ELSE IF DidConvertTfIdf
       THEN /\ ret' = Ret("AddClass", "error", "ErrAlreadyConverted")
            /\ UNCHANGED <<Classes, datas, calls>>
       ELSE /\ calls < MaxCalls
            /\ Classes' = Append(Classes, class)
            /\ datas' = MapPut(datas, class, newClassData)
            /\ calls' = calls + 1
            /\ ret' = Ret("AddClass", "ok", "nil")
    /\ UNCHANGED <<alive, learned, seen, tfIdf, DidConvertTfIdf, files, stream, mu, pc>>

AddClass(class) ==
    /\ alive
    /\ IF DidConvertTfIdf
       THEN /\ ret' = Ret("AddClass", "error", "ErrAlreadyConverted")
            /\ UNCHANGED <<Classes, datas, calls>>
       ELSE IF class \in DOMAIN datas
       THEN /\ ret' = Ret("AddClass", "error", "ErrClassExists")
            /\ UNCHANGED <<Classes, datas, calls>>
       ELSE /\ calls < MaxCalls
            /\ Classes' = Append(Classes, class)
            /\ datas' = MapPut(datas, class, newClassData)
            /\ calls' = calls + 1
            /\ ret' = Ret("AddClass", "ok", "nil")
    /\ UNCHANGED <<alive, learned, seen, tfIdf, DidConvertTfIdf, files, stream, mu, pc>>

\* ------------------------------------------------------- getPriors

RECURSIVE SumTotals(_, _, _)
SumTotals(C, D, i) == IF i > Len(C) THEN 0 ELSE D[C[i]].Total + SumTotals(C, D, i + 1)

getPriors(C, D) ==
    LET n == Len(C)
        sum == SumTotals(C, D, 1)
        floatN == FromInt(n)
        floatSum == FromInt(sum)
    IN  [i \in 1..n |-> FDiv(FAdd(FromInt(D[C[i]].Total), One), FAdd(floatSum, floatN))]

\* ------------------------------------------------------- Observe

\* an Observe that counts the word and leaves the total of the class alone
ObservedFreqs(data, word, count) ==
    [data EXCEPT !.Freqs = MapPut(data.Freqs, word,
                               FAdd(MapGet(data.Freqs, word, Zero), FromInt(count)))]

\* data.Freqs[word] += float64(count); data.Total += count
Observed(data, word, count) ==
    [data EXCEPT !.Freqs = MapPut(data.Freqs, word,
                               FAdd(MapGet(data.Freqs, word, Zero), FromInt(count))),
                 !.Total = data.Total + count]

Observe(word, count, which) ==
    /\ alive
    /\ IF which \notin DOMAIN datas
       THEN /\ ret' = Ret("Observe", "panic", "nil")
            /\ UNCHANGED <<datas, calls>>
       ELSE /\ calls < MaxCalls
            /\ datas' = [datas EXCEPT ![which] = Observed(datas[which], word, count)]
            /\ calls' = calls + 1
            /\ ret' = Ret("Observe", "ok", "nil")
    /\ UNCHANGED <<alive, Classes, learned, seen, tfIdf, DidConvertTfIdf, files, stream, mu, pc>>

\* ------------------------------------------------------- Learn

\* the number of occurrences of word in document
RECURSIVE Occurrences(_, _)
Occurrences(document, word) ==
    IF document = <<>> THEN 0
    ELSE (IF Head(document) = word THEN 1 ELSE 0) + Occurrences(Tail(document), word)

\* FreqTfs with one TF sample appended for every occurrence of a word
AddTfSamplesPerOccurrence(freqTfs, document) ==
    [w \in DOMAIN freqTfs \cup Range1(document) |->
        IF w \in Range1(document)
        THEN MapGet(freqTfs, w, <<>>)
             \o [i \in 1..Occurrences(document, w) |->
                    FDiv(FromInt(Occurrences(document, w)), FromInt(Len(document)))]
        ELSE freqTfs[w]]

\* FreqTfs after the TF samples of document are appended
AddTfSamples(freqTfs, document) ==
    LET docLen == FromInt(Len(document))
        words == Range1(document)
    IN  [w \in DOMAIN freqTfs \cup words |->
            IF w \in words
            THEN Append(MapGet(freqTfs, w, <<>>),
                        FDiv(FromInt(Occurrences(document, w)), docLen))
            ELSE freqTfs[w]]

\* Freqs after every word occurrence of document is counted
RECURSIVE CountWords(_, _)
CountWords(freqs, document) ==
    IF document = <<>> THEN freqs
    ELSE CountWords(MapPut(freqs, Head(document),
                           FAdd(MapGet(freqs, Head(document), Zero), One)),
                    Tail(document))

\* the class data after a document is learned in the given mode
Learnt(data, document, mode) ==
    [Freqs |-> CountWords(data.Freqs, document),
     FreqTfs |-> IF mode THEN AddTfSamples(data.FreqTfs, document) ELSE data.FreqTfs,
     Total |-> data.Total + Len(document)]

\* a Learn that counts the words of the document as documents learned
LearnPerWord(document, which) ==
    IF which \notin DOMAIN datas /\ document # <<>>
    THEN /\ ret' = Ret("Learn", "panic", "nil")
         /\ UNCHANGED <<datas, learned, calls>>
    ELSE /\ calls < MaxCalls
         /\ datas' = IF which \notin DOMAIN datas THEN datas
                     ELSE [datas EXCEPT ![which] = Learnt(datas[which], document, tfIdf)]
         /\ learned' = learned + Len(document)
         /\ calls' = calls + 1
         /\ ret' = Ret("Learn", "ok", "nil")

\* Learn past the check of the mode: c.datas[which] is nil for an unknown
\* class, and is not touched when the document is empty
LearnDocument(document, which) ==
    IF which \notin DOMAIN datas /\ document # <<>>
    THEN /\ ret' = Ret("Learn", "panic", "nil")
         /\ UNCHANGED <<datas, learned, calls>>
    ELSE /\ calls < MaxCalls
         /\ datas' = IF which \notin DOMAIN datas THEN datas
                     ELSE [datas EXCEPT ![which] = Learnt(datas[which], document, tfIdf)]
         /\ learned' = learned + 1
         /\ calls' = calls + 1
         /\ ret' = Ret("Learn", "ok", "nil")

\* a Learn that accepts documents on a converted classifier
LearnConverted(document, which) ==
    /\ alive
    /\ LearnDocument(document, which)
    /\ UNCHANGED <<alive, Classes, seen, tfIdf, DidConvertTfIdf, files, stream, mu, pc>>

Learn(document, which) ==
    /\ alive
    /\ IF tfIdf /\ DidConvertTfIdf
       THEN /\ ret' = Ret("Learn", "panic", "nil")
            /\ UNCHANGED <<datas, learned, calls>>
       ELSE LearnDocument(document, which)
    /\ UNCHANGED <<alive, Classes, seen, tfIdf, DidConvertTfIdf, files, stream, mu, pc>>

\* ------------------------------------------------------- ConvertTermsFreqToTfIdf

\* a TF-IDF value whose second factor is log1p(total / learned)
TfIdfSampleInverted(tf, nLearned, total) ==
    FMul(Log1p(tf), Log1p(FDiv(FromInt(total), FromInt(nLearned))))

\* the TF-IDF value that replaces the TF sample tf of a class
TfIdfSample(tf, nLearned, total) ==
    FMul(Log1p(tf), Log1p(FDiv(FromInt(nLearned), FromInt(total))))

RECURSIVE SumSamples(_, _)
SumSamples(samples, acc) ==
    IF samples = <<>> THEN acc
    ELSE SumSamples(Tail(samples), FAdd(acc, Head(samples)))

\* every TF sample of a class replaced by its TF-IDF value
TfIdfSamples(data, nLearned) ==
    [w \in DOMAIN data.FreqTfs |->
        [i \in 1..Len(data.FreqTfs[w]) |->
            TfIdfSample(data.FreqTfs[w][i], nLearned, data.Total)]]

\* a conversion that also resets the words that have no sample
ConvertedEveryWord(data, tfs) ==
    [Freqs |-> [w \in DOMAIN data.Freqs \cup DOMAIN tfs |->
                   SumSamples(MapGet(tfs, w, <<>>), Zero)],
     FreqTfs |-> tfs,
     Total |-> data.Total]

\* a class whose samples became tfs: Freqs[word] is the sum of the word's samples
Converted(data, tfs) ==
    [Freqs |-> [w \in DOMAIN data.Freqs \cup DOMAIN tfs |->
                   IF w \in DOMAIN tfs THEN SumSamples(tfs[w], Zero)
                   ELSE data.Freqs[w]],
     FreqTfs |-> tfs,
     Total |-> data.Total]

ConvertClass(data, nLearned) == Converted(data, TfIdfSamples(data, nLearned))

ConvertTermsFreqToTfIdf ==
    /\ alive
    /\ IF DidConvertTfIdf
       THEN /\ ret' = Ret("ConvertTermsFreqToTfIdf", "panic", "nil")
            /\ UNCHANGED <<datas, DidConvertTfIdf, calls>>
       ELSE /\ calls < MaxCalls
            /\ datas' = [c \in DOMAIN datas |-> ConvertClass(datas[c], learned)]
            /\ DidConvertTfIdf' = TRUE
            /\ calls' = calls + 1
            /\ ret' = Ret("ConvertTermsFreqToTfIdf", "ok", "nil")
    /\ UNCHANGED <<alive, Classes, learned, seen, tfIdf, files, stream, mu, pc>>


\* ------------------------------------------------------- findMax

RECURSIVE findMaxFrom(_, _, _, _)
findMaxFrom(scores, i, inx, strict) ==
    IF i >= Len(scores) THEN [inx |-> inx, strict |-> strict]
    ELSE IF FLt(scores[inx + 1], scores[i + 1]) THEN findMaxFrom(scores, i + 1, i, TRUE)
    ELSE IF FEq(scores[inx + 1], scores[i + 1]) THEN findMaxFrom(scores, i + 1, inx, FALSE)
    ELSE findMaxFrom(scores, i + 1, inx, strict)

\* indexes are those of the program: the first class has index 0
findMax(scores) == findMaxFrom(scores, 1, 0, TRUE)

\* ------------------------------------------------------- scoring loops

\* score *= data.getWordProb(word), for each word of the document
\* (a NaN stays NaN whatever it is multiplied by)
RECURSIVE ProbProduct(_, _, _)
ProbProduct(score, data, doc) ==
    IF doc = <<>> \/ score.t = "nan" THEN score
    ELSE ProbProduct(FMul(score, getWordProb(data, Head(doc))), data, Tail(doc))

\* score += math.Log(data.getWordProb(word)), for each word of the document
\* (a NaN stays NaN whatever is added to it)
RECURSIVE LogSum(_, _, _)
LogSum(score, data, doc) ==
    IF doc = <<>> \/ score.t = "nan" THEN score
    ELSE LogSum(FAdd(score, Log(getWordProb(data, Head(doc)))), data, Tail(doc))

\* the linear score of every class, before normalization
LinearScores(C, D, doc) ==
    LET priors == getPriors(C, D)
    IN  [i \in 1..Len(C) |-> ProbProduct(priors[i], D[C[i]], doc)]

\* the log-domain score of every class
LogDomainScores(C, D, doc) ==
    LET priors == getPriors(C, D)
    IN  [i \in 1..Len(C) |-> LogSum(Log(priors[i]), D[C[i]], doc)]

\* sum += score, class by class
RECURSIVE SumScores(_, _)
SumScores(scores, acc) ==
    IF scores = <<>> THEN acc ELSE SumScores(Tail(scores), FAdd(acc, Head(scores)))

Normalized(scores, sum) == [i \in 1..Len(scores) |-> FDiv(scores[i], sum)]

\* ------------------------------------------------------- what scoring returns

\* scores with the pair m of findMax and the error err
Result(scores, m, err) ==
    [scores |-> scores, inx |-> m.inx, strict |-> m.strict, err |-> err]

\* inx, strict = findMax(scores)
WithMax(scores) == Result(scores, findMax(scores), "nil")

\* ------------------------------------------------------- LogScores

LogScoresResult(C, D, document) == WithMax(LogDomainScores(C, D, document))

\* ------------------------------------------------------- ProbScores

\* equal := 1.0 / float64(n), for every class
Uniform(n) == [i \in 1..n |-> FDiv(One, FromInt(n))]

\* a normalization that divides by the sum whatever it is
ProbDivide(scores, sum) == WithMax(Normalized(scores, sum))

\* the named results inx and strict keep 0 and false when sum == 0
ProbNormalize(scores, sum) ==
    IF FEq(sum, Zero)
    THEN [scores |-> Uniform(Len(scores)), inx |-> 0, strict |-> FALSE, err |-> "nil"]
    ELSE WithMax(Normalized(scores, sum))

ProbFrom(scores) == ProbNormalize(scores, SumScores(scores, Zero))

ProbScoresResult(C, D, doc) == ProbFrom(LinearScores(C, D, doc))

\* ------------------------------------------------------- logScoresToProbs

RECURSIVE MaxLog(_, _, _)
MaxLog(logScores, i, maxLog) ==
    IF i > Len(logScores) THEN maxLog
    ELSE MaxLog(logScores, i + 1,
                IF FLt(maxLog, logScores[i]) THEN logScores[i] ELSE maxLog)

\* probs[i] = math.Exp(logScores[i] - maxLog)
Shifted(logScores, maxLog) ==
    [i \in 1..Len(logScores) |-> Exp(FSub(logScores[i], maxLog))]

\* probs[i] /= sum
ExpNormalize(probs) == Normalized(probs, SumScores(probs, Zero))

logScoresToProbs(logScores) ==
    ExpNormalize(Shifted(logScores, MaxLog(logScores, 2, logScores[1])))

\* ------------------------------------------------------- SafeProbScores

\* err = ErrUnderflow: the scores and the pair come from the log domain
Underflow(logScores, logMax) ==
    Result(logScoresToProbs(logScores), logMax, "ErrUnderflow")

\* the linear domain is accepted without comparing it with the log domain
SafeAgreeAlways(norm, m, logScores, logMax) == Result(norm, m, "nil")

\* partial underflow: the pair m of the normalized scores against logMax
SafeAgree(norm, m, logScores, logMax) ==
    IF m.inx # logMax.inx \/ m.strict # logMax.strict
    THEN Underflow(logScores, logMax)
    ELSE Result(norm, m, "nil")

SafeNormalized(norm, logScores, logMax) ==
    SafeAgree(norm, findMax(norm), logScores, logMax)

\* complete underflow when sum == 0
SafeSum(scores, sum, logScores, logMax) ==
    IF FEq(sum, Zero)
    THEN Underflow(logScores, logMax)
    ELSE SafeNormalized(Normalized(scores, sum), logScores, logMax)

\* the log domain is not consulted at all
SafeFromLinear(scores, logScores) == ProbFrom(scores)

SafeFrom(scores, logScores) ==
    SafeSum(scores, SumScores(scores, Zero), logScores, findMax(logScores))

SafeProbScoresResult(C, D, doc) ==
    SafeFrom(LinearScores(C, D, doc), LogDomainScores(C, D, doc))

\* ----------------------------------------- the range of the model's integers

\* the larger of numerator and denominator of a word probability
Height(p) ==
    IF p.t = "fin" /\ p.num # <<>>
    THEN LET t == Head(p.num) IN IF Abs(t.n) > t.d THEN Abs(t.n) ELSE t.d
    ELSE 1

\* the largest numerator or denominator the model's integers hold in a product
MaxHeight == 4096

RECURSIVE ProductHeight(_, _, _)
ProductHeight(h, data, doc) ==
    IF doc = <<>> \/ h > MaxHeight THEN h
    ELSE ProductHeight(h * Height(getWordProb(data, Head(doc))), data, Tail(doc))

\* the exact scores of doc fit the model's integers
Fits(C, D, doc) == \A i \in 1..Len(C) : ProductHeight(1, D[C[i]], doc) <= MaxHeight

\* ------------------------------------------------------- the scoring calls

\* a scoring call that counts the words of the document as documents seen
ScoredPerWord(op, doc, result) ==
    /\ calls < MaxCalls
    /\ Fits(Classes, datas, doc)
    /\ ret' = ScoreRet(op, doc, result)
    /\ seen' = seen + Len(doc)
    /\ calls' = calls + 1

\* a scoring call past the check of the mode
Scored(op, doc, result) ==
    /\ calls < MaxCalls
    /\ Fits(Classes, datas, doc)
    /\ ret' = ScoreRet(op, doc, result)
    /\ seen' = seen + 1
    /\ calls' = calls + 1

\* a scoring call that does not check the mode
ScoringAnyMode(op, doc, result) ==
    /\ alive
    /\ Scored(op, doc, result)
    /\ UNCHANGED <<alive, Classes, datas, learned, tfIdf, DidConvertTfIdf, files, stream, mu, pc>>

Scoring(op, doc, result) ==
    /\ alive
    /\ IF tfIdf /\ ~DidConvertTfIdf
       THEN /\ ret' = Ret(op, "panic", "nil")
            /\ UNCHANGED <<seen, calls>>
       ELSE Scored(op, doc, result)
    /\ UNCHANGED <<alive, Classes, datas, learned, tfIdf, DidConvertTfIdf, files, stream, mu, pc>>

LogScores(document) ==
    Scoring("LogScores", document, LogScoresResult(Classes, datas, document))

ProbScores(doc) ==
    Scoring("ProbScores", doc, ProbScoresResult(Classes, datas, doc))

SafeProbScores(doc) ==
    Scoring("SafeProbScores", doc, SafeProbScoresResult(Classes, datas, doc))

\* ------------------------------------------------------- per-class files

\* gob encoding of a *classData: the fields in order, a field with the zero
\* value left out (an empty but non-nil map is sent, a zero int is not);
\* a nil pointer cannot be encoded
gobEncode(data) ==
    <<[field |-> "Freqs", value |-> data.Freqs],
      [field |-> "FreqTfs", value |-> data.FreqTfs]>>
    \o (IF data.Total = 0 THEN <<>> ELSE <<[field |-> "Total", value |-> data.Total]>>)

\* gob decoding into new(classData): the fields sent overwrite the zero value
RECURSIVE gobDecodeInto(_, _)
gobDecodeInto(w, bytes) ==
    IF bytes = <<>> THEN w
    ELSE LET f == Head(bytes)
         IN  gobDecodeInto(
                 CASE f.field = "Freqs" -> [w EXCEPT !.Freqs = f.value]
                   [] f.field = "FreqTfs" -> [w EXCEPT !.FreqTfs = f.value]
                   [] f.field = "Total" -> [w EXCEPT !.Total = f.value],
                 Tail(bytes))

WriteClassToFile(name) ==
    /\ alive
    /\ calls < MaxCalls
    /\ IF name \in DOMAIN datas
       THEN /\ files' = MapPut(files, name, gobEncode(datas[name]))
            /\ ret' = Ret("WriteClassToFile", "ok", "nil")
       ELSE /\ files' = MapPut(files, name, <<>>)
            /\ ret' = Ret("WriteClassToFile", "error", "gob")
    /\ calls' = calls + 1
    /\ UNCHANGED <<alive, classifier, stream, mu, pc>>

\* a reader that counts a failed call as well
ReadClassCountingFailures(class) ==
    /\ alive
    /\ calls < MaxCalls
    /\ learned' = learned + 1
    /\ calls' = calls + 1
    /\ IF class \notin DOMAIN files
       THEN /\ ret' = Ret("ReadClassFromFile", "error", "open")
            /\ UNCHANGED datas
       ELSE IF files[class] = <<>>
       THEN /\ ret' = Ret("ReadClassFromFile", "error", "EOF")
            /\ UNCHANGED datas
       ELSE /\ datas' = MapPut(datas, class, gobDecodeInto(newClassData, files[class]))
            /\ ret' = Ret("ReadClassFromFile", "ok", "nil")
    /\ UNCHANGED <<alive, Classes, seen, tfIdf, DidConvertTfIdf, files, stream, mu, pc>>

ReadClassFromFile(class) ==
    /\ alive
    /\ IF class \notin DOMAIN files
       THEN /\ ret' = Ret("ReadClassFromFile", "error", "open")
            /\ UNCHANGED <<datas, learned, calls>>
       ELSE IF files[class] = <<>>
       THEN /\ ret' = Ret("ReadClassFromFile", "error", "EOF")
            /\ UNCHANGED <<datas, learned, calls>>
       ELSE /\ calls < MaxCalls
            /\ learned' = learned + 1
            /\ datas' = MapPut(datas, class, gobDecodeInto(newClassData, files[class]))
            /\ calls' = calls + 1
            /\ ret' = Ret("ReadClassFromFile", "ok", "nil")
    /\ UNCHANGED <<alive, Classes, seen, tfIdf, DidConvertTfIdf, files, stream, mu, pc>>

\* ------------------------------------------------------- the whole classifier

\* the classifier as one value
State(C, nLearned, nSeen, D, mode, did) ==
    [Classes |-> C, learned |-> nLearned, seen |-> nSeen, datas |-> D,
     tfIdf |-> mode, DidConvertTfIdf |-> did]

\* an encoder that never sends the Seen field
writeGobWithoutSeen(C, nLearned, nSeen, D, mode, did) ==
    <<[field |-> "Classes", value |-> C]>>
    \o (IF nLearned = 0 THEN <<>> ELSE <<[field |-> "Learned", value |-> nLearned]>>)
    \o <<[field |-> "Datas", value |-> [c \in DOMAIN D |-> gobEncode(D[c])]]>>
    \o (IF mode THEN <<[field |-> "TfIdf", value |-> TRUE]>> ELSE <<>>)
    \o (IF did THEN <<[field |-> "DidConvertTfIdf", value |-> TRUE]>> ELSE <<>>)

\* gob encoding of &serializableClassifier{...}: the fields in order, a field
\* with the zero value (0, false) left out; every *classData of Datas is
\* encoded as gobEncode does
writeGobLocked(C, nLearned, nSeen, D, mode, did) ==
    <<[field |-> "Classes", value |-> C]>>
    \o (IF nLearned = 0 THEN <<>> ELSE <<[field |-> "Learned", value |-> nLearned]>>)
    \o (IF nSeen = 0 THEN <<>> ELSE <<[field |-> "Seen", value |-> nSeen]>>)
    \o <<[field |-> "Datas", value |-> [c \in DOMAIN D |-> gobEncode(D[c])]]>>
    \o (IF mode THEN <<[field |-> "TfIdf", value |-> TRUE]>> ELSE <<>>)
    \o (IF did THEN <<[field |-> "DidConvertTfIdf", value |-> TRUE]>> ELSE <<>>)

\* the zero serializableClassifier
ZeroState == State(<<>>, 0, 0, [c \in {} |-> newClassData], FALSE, FALSE)

\* the field f decoded into w
gobDecodeField(w, f) ==
    CASE f.field = "Classes" -> [w EXCEPT !.Classes = f.value]
      [] f.field = "Learned" -> [w EXCEPT !.learned = f.value]
      [] f.field = "Seen" -> [w EXCEPT !.seen = f.value]
      [] f.field = "Datas" ->
            [w EXCEPT !.datas = [c \in DOMAIN f.value |->
                                    gobDecodeInto(newClassData, f.value[c])]]
      [] f.field = "TfIdf" -> [w EXCEPT !.tfIdf = f.value]
      [] f.field = "DidConvertTfIdf" -> [w EXCEPT !.DidConvertTfIdf = f.value]

\* dec.Decode(w) for w := new(serializableClassifier)
RECURSIVE gobDecodeClassifier(_, _)
gobDecodeClassifier(w, bytes) ==
    IF bytes = <<>> THEN w
    ELSE gobDecodeClassifier(gobDecodeField(w, Head(bytes)), Tail(bytes))

\* WriteToFile writes the same bytes to a file
WriteGob ==
    /\ alive
    /\ calls < MaxCalls
    /\ stream' = writeGobLocked(Classes, learned, seen, datas, tfIdf, DidConvertTfIdf)
    /\ calls' = calls + 1
    /\ ret' = Ret("WriteGob", "ok", "nil")
    /\ UNCHANGED <<alive, classifier, files, mu, pc>>

\* the classifier built from the decoded value w
Loaded(w) ==
    /\ alive' = TRUE
    /\ Classes' = w.Classes
    /\ learned' = w.learned
    /\ seen' = w.seen
    /\ datas' = w.datas
    /\ tfIdf' = w.tfIdf
    /\ DidConvertTfIdf' = w.DidConvertTfIdf

\* the reader holds the bytes written last (NewClassifierFromFile reads them
\* from the file); the classifier returned takes the place of the old one
NewClassifierFromReader ==
    /\ stream # <<>>
    /\ Loaded(gobDecodeClassifier(ZeroState, stream))
    /\ ret' = Ret("NewClassifierFromReader", "ok", "nil")
    /\ UNCHANGED <<files, stream, calls, mu, pc>>

\* ------------------------------------------------------- specification

Next ==
    \/ \E classes \in CtorLists : NewClassifier(classes)
    \/ \E classes \in CtorLists : NewClassifierTfIdf(classes)
    \/ \E class \in ClassNames : AddClass(class)
    \/ \E word \in ObserveWords, count \in Counts, which \in ClassNames :
          Observe(word, count, which)
    \/ \E document \in LearnDocs, which \in ClassNames : Learn(document, which)
    \/ ConvertTermsFreqToTfIdf
    \/ \E document \in ScoreDocs : LogScores(document)
    \/ \E doc \in ScoreDocs : ProbScores(doc)
    \/ \E doc \in ScoreDocs : SafeProbScores(doc)
    \/ \E name \in FileNames : WriteClassToFile(name)
    \/ \E class \in FileNames : ReadClassFromFile(class)
    \/ WriteGob
    \/ NewClassifierFromReader

Spec == Init /\ [][Next]_vars

\* ------------------------------------------------------- concurrent callers
\*
\* NumCallers goroutines share one classifier built by NewClassifier("A", "B")
\* or by NewClassifierTfIdf("A", "B").
\* A call is a sequence of steps: taking the lock, the body, the atomic add,
\* releasing the lock. pc[p].at is the step caller p takes next. A pending
\* Lock does not hold back new readers here, as sync.RWMutex does to keep
\* writers from starving: that changes which interleavings are live, not
\* which states are reachable with the lock held.

ScoringOps == {"LogScores", "ProbScores", "SafeProbScores"}

\* the wrappers that return c.Classes[inx] of a scoring call
ClassifyOps == {"Classify", "ClassifyProb", "ClassifySafe"}

\* the methods that begin with c.mu.Lock()
ExclusiveOps == {"Learn", "Observe", "AddClass", "ConvertTermsFreqToTfIdf"}

IntrospectionOps == {"WordCount", "WordFrequencies", "WordsByClass"}

\* the methods that encode under c.mu.RLock()
EncodingOps == {"WriteGob", "WriteClassToFile", "WriteClassesToFile"}

\* the methods that begin with c.mu.RLock()
SharedOps == ScoringOps \cup ClassifyOps \cup IntrospectionOps \cup EncodingOps

Ops == ExclusiveOps \cup SharedOps \cup {"ReadClassFromFile", "Learned", "Seen", "WriteToFile"}

\* the first step of a call of op
Entry(op) ==
    CASE op \in ExclusiveOps -> "Lock"
      [] op \in SharedOps -> "RLock"
      [] op = "ReadClassFromFile" -> "decode"
      [] op = "Learned" -> "load"
      [] op = "Seen" -> "atomicLoad"
      [] op = "WriteToFile" -> "open"

\* the arguments of the concurrent calls
ConcDoc == <<"w">>

ConcClass == "A"

ConcNewClass == "C"

ConcInit ==
    /\ alive = TRUE
    /\ Classes = <<"A", "B">>
    /\ datas = [c \in {"A", "B"} |-> newClassData]
    /\ learned = 0
    /\ seen = 0
    /\ tfIdf \in BOOLEAN
    /\ DidConvertTfIdf = FALSE
    /\ files = [c \in {} |-> <<>>]
    /\ stream = <<>>
    /\ calls = 0
    /\ ret = Ret("newClassifier", "ok", "nil")
    /\ mu = Unlocked
    /\ pc = [p \in Procs |-> Idle]

Goto(p, at) == pc' = [pc EXCEPT ![p].at = at]

Return(p) == pc' = [pc EXCEPT ![p] = Idle]

\* caller p begins a call of op
Call(p, op) ==
    /\ pc[p].at = "idle"
    /\ calls < MaxCalls
    /\ calls' = calls + 1
    /\ pc' = [pc EXCEPT ![p] = [Idle EXCEPT !.op = op, !.at = Entry(op)]]
    /\ UNCHANGED <<alive, classifier, files, stream, ret, mu>>

\* a Lock that waits for a writer only
LockDespiteReaders(p) ==
    /\ pc[p].at = "Lock"
    /\ mu.writer = 0
    /\ mu' = [mu EXCEPT !.writer = p]
    /\ Goto(p, "write")
    /\ UNCHANGED <<alive, classifier, files, stream, calls, ret>>

\* c.mu.Lock(): waits until no caller holds the lock in either mode
Lock(p) ==
    /\ pc[p].at = "Lock"
    /\ mu.writer = 0
    /\ mu.readers = {}
    /\ mu' = [mu EXCEPT !.writer = p]
    /\ Goto(p, "write")
    /\ UNCHANGED <<alive, classifier, files, stream, calls, ret>>

\* the body of Learn under the lock
LearnLocked ==
    IF tfIdf /\ DidConvertTfIdf
    THEN /\ ret' = Ret("Learn", "panic", "nil")
         /\ UNCHANGED <<Classes, datas, learned, DidConvertTfIdf>>
    ELSE /\ datas' = [datas EXCEPT ![ConcClass] = Learnt(datas[ConcClass], ConcDoc, tfIdf)]
         /\ learned' = learned + 1
         /\ ret' = Ret("Learn", "ok", "nil")
         /\ UNCHANGED <<Classes, DidConvertTfIdf>>

\* the body of Observe under the lock
ObserveLocked ==
    /\ datas' = [datas EXCEPT ![ConcClass] = Observed(datas[ConcClass], "w", 1)]
    /\ ret' = Ret("Observe", "ok", "nil")
    /\ UNCHANGED <<Classes, learned, DidConvertTfIdf>>

\* the body of AddClass under the lock
AddClassLocked ==
    IF DidConvertTfIdf
    THEN /\ ret' = Ret("AddClass", "error", "ErrAlreadyConverted")
         /\ UNCHANGED <<Classes, datas, learned, DidConvertTfIdf>>
    ELSE IF ConcNewClass \in DOMAIN datas
    THEN /\ ret' = Ret("AddClass", "error", "ErrClassExists")
         /\ UNCHANGED <<Classes, datas, learned, DidConvertTfIdf>>
    ELSE /\ Classes' = Append(Classes, ConcNewClass)
         /\ datas' = MapPut(datas, ConcNewClass, newClassData)
         /\ ret' = Ret("AddClass", "ok", "nil")
         /\ UNCHANGED <<learned, DidConvertTfIdf>>

\* the body of ConvertTermsFreqToTfIdf under the lock
ConvertLocked ==
    IF DidConvertTfIdf
    THEN /\ ret' = Ret("ConvertTermsFreqToTfIdf", "panic", "nil")
         /\ UNCHANGED <<Classes, datas, learned, DidConvertTfIdf>>
    ELSE /\ datas' = [c \in DOMAIN datas |-> ConvertClass(datas[c], learned)]
         /\ DidConvertTfIdf' = TRUE
         /\ ret' = Ret("ConvertTermsFreqToTfIdf", "ok", "nil")
         /\ UNCHANGED <<Classes, learned>>

\* c.learned++; c.datas[class] = w
ReadClassLocked(p) ==
    /\ learned' = learned + 1
    /\ datas' = MapPut(datas, ConcClass, pc[p].w)
    /\ ret' = Ret("ReadClassFromFile", "ok", "nil")
    /\ UNCHANGED <<Classes, DidConvertTfIdf>>

\* the writes of a mutating method, made by the caller that holds the lock
Write(p) ==
    /\ pc[p].at = "write"
    /\ CASE pc[p].op = "Learn" -> LearnLocked
         [] pc[p].op = "Observe" -> ObserveLocked
         [] pc[p].op = "AddClass" -> AddClassLocked
         [] pc[p].op = "ConvertTermsFreqToTfIdf" -> ConvertLocked
         [] pc[p].op = "ReadClassFromFile" -> ReadClassLocked(p)
    /\ Goto(p, "Unlock")
    /\ UNCHANGED <<alive, seen, tfIdf, files, stream, calls, mu>>

\* a return that leaves the lock with the caller
ReturnLocked(p) ==
    /\ pc[p].at = "Unlock"
    /\ Return(p)
    /\ UNCHANGED <<alive, classifier, files, stream, calls, ret, mu>>

\* the deferred c.mu.Unlock(), which runs after a panic as well
Unlock(p) ==
    /\ pc[p].at = "Unlock"
    /\ mu' = [mu EXCEPT !.writer = 0]
    /\ Return(p)
    /\ UNCHANGED <<alive, classifier, files, stream, calls, ret>>

\* ReadClassFromFile opens and decodes the file before it takes the lock
Decode(p) ==
    /\ pc[p].at = "decode"
    /\ IF ConcClass \notin DOMAIN files
       THEN /\ ret' = Ret("ReadClassFromFile", "error", "open")
            /\ Return(p)
       ELSE IF files[ConcClass] = <<>>
       THEN /\ ret' = Ret("ReadClassFromFile", "error", "EOF")
            /\ Return(p)
       ELSE /\ pc' = [pc EXCEPT ![p].at = "Lock",
                                ![p].w = gobDecodeInto(newClassData, files[ConcClass])]
            /\ UNCHANGED ret
    /\ UNCHANGED <<alive, classifier, files, stream, calls, mu>>

\* c.mu.RLock(): waits until no caller holds the lock exclusively
RLock(p) ==
    /\ pc[p].at = "RLock"
    /\ mu.writer = 0
    /\ mu' = [mu EXCEPT !.readers = @ \cup {p}]
    /\ Goto(p, IF pc[p].op \in EncodingOps THEN "encode" ELSE "read")
    /\ UNCHANGED <<alive, classifier, files, stream, calls, ret>>

\* what the scoring method under op returns for ConcDoc
ScoresOf(op) ==
    CASE op \in {"LogScores", "Classify"} -> LogScoresResult(Classes, datas, ConcDoc)
      [] op \in {"ProbScores", "ClassifyProb"} -> ProbScoresResult(Classes, datas, ConcDoc)
      [] op \in {"SafeProbScores", "ClassifySafe"} ->
            SafeProbScoresResult(Classes, datas, ConcDoc)

\* the reads of a scoring or introspection method, made under the read lock:
\* the scores are computed before seen is counted
Read(p) ==
    /\ pc[p].at = "read"
    /\ IF pc[p].op \in IntrospectionOps
       THEN /\ ret' = [Ret(pc[p].op, "ok", "nil") EXCEPT !.val = datas[ConcClass].Total]
            /\ Goto(p, "RUnlock")
       ELSE IF tfIdf /\ ~DidConvertTfIdf
       THEN /\ ret' = Ret(pc[p].op, "panic", "nil")
            /\ pc' = [pc EXCEPT ![p].at = "RUnlock", ![p].val = -1]
       ELSE /\ ret' = ScoreRet(pc[p].op, ConcDoc, ScoresOf(pc[p].op))
            /\ pc' = [pc EXCEPT ![p].at = "add", ![p].val = ScoresOf(pc[p].op).inx]
    /\ UNCHANGED <<alive, classifier, files, stream, calls, mu>>

\* an add that stores one more than a value of seen loaded earlier
AddSeenFromLoad(p) ==
    /\ pc[p].at = "add"
    /\ \E loaded \in 0..seen : seen' = loaded + 1
    /\ Goto(p, "RUnlock")
    /\ UNCHANGED <<alive, Classes, datas, learned, tfIdf, DidConvertTfIdf,
                   files, stream, calls, ret, mu>>

\* atomic.AddInt32(&c.seen, 1)
AddSeen(p) ==
    /\ pc[p].at = "add"
    /\ seen' = seen + 1
    /\ Goto(p, "RUnlock")
    /\ UNCHANGED <<alive, Classes, datas, learned, tfIdf, DidConvertTfIdf,
                   files, stream, calls, ret, mu>>

\* the deferred c.mu.RUnlock(); a Classify wrapper goes on to c.Classes[inx]
RUnlock(p) ==
    /\ pc[p].at = "RUnlock"
    /\ mu' = [mu EXCEPT !.readers = @ \ {p}]
    /\ IF pc[p].op \in ClassifyOps /\ pc[p].val >= 0
       THEN Goto(p, "label")
       ELSE Return(p)
    /\ UNCHANGED <<alive, classifier, files, stream, calls, ret>>

\* class = c.Classes[inx], read after the scoring method has returned
Label(p) ==
    /\ pc[p].at = "label"
    /\ ret' = [Ret(pc[p].op, "ok", "nil") EXCEPT !.inx = pc[p].val,
                                                 !.val = Len(Classes)]
    /\ Return(p)
    /\ UNCHANGED <<alive, classifier, files, stream, calls, mu>>

\* return c.learned
LoadLearned(p) ==
    /\ pc[p].at = "load"
    /\ ret' = [Ret("Learned", "ok", "nil") EXCEPT !.val = learned]
    /\ Return(p)
    /\ UNCHANGED <<alive, classifier, files, stream, calls, mu>>

\* return int(atomic.LoadInt32(&c.seen))
LoadSeen(p) ==
    /\ pc[p].at = "atomicLoad"
    /\ ret' = [Ret("Seen", "ok", "nil") EXCEPT !.val = seen]
    /\ Return(p)
    /\ UNCHANGED <<alive, classifier, files, stream, calls, mu>>

\* WriteToFile opens the file and goes on to writeGobLocked
Open(p) ==
    /\ pc[p].at = "open"
    /\ Goto(p, "encode")
    /\ UNCHANGED <<alive, classifier, files, stream, calls, ret, mu>>

\* every class of datas written to the file of its name
ClassFiles ==
    [c \in DOMAIN files \cup DOMAIN datas |->
        IF c \in DOMAIN datas THEN gobEncode(datas[c]) ELSE files[c]]

\* the classifier, or the data of a class, is encoded and written
Encode(p) ==
    /\ pc[p].at = "encode"
    /\ CASE pc[p].op \in {"WriteGob", "WriteToFile"} ->
              /\ stream' = writeGobLocked(Classes, learned, seen, datas, tfIdf,
                                          DidConvertTfIdf)
              /\ UNCHANGED files
         [] pc[p].op = "WriteClassToFile" ->
              /\ files' = MapPut(files, ConcClass, gobEncode(datas[ConcClass]))
              /\ UNCHANGED stream
         [] pc[p].op = "WriteClassesToFile" ->
              /\ files' = ClassFiles
              /\ UNCHANGED stream
    /\ ret' = Ret(pc[p].op, "ok", "nil")
    /\ IF pc[p].op = "WriteToFile" THEN Return(p) ELSE Goto(p, "RUnlock")
    /\ UNCHANGED <<alive, classifier, calls, mu>>

ConcNext ==
    \E p \in Procs :
        \/ \E op \in Ops : Call(p, op)
        \/ Lock(p)
        \/ Write(p)
        \/ Unlock(p)
        \/ Decode(p)
        \/ RLock(p)
        \/ Read(p)
        \/ AddSeen(p)
        \/ RUnlock(p)
        \/ Label(p)
        \/ LoadLearned(p)
        \/ LoadSeen(p)
        \/ Open(p)
        \/ Encode(p)

ConcSpec == ConcInit /\ [][ConcNext]_vars

\* a step of caller p inside a call
Step(p) ==
    \/ Lock(p) \/ Unlock(p) \/ RLock(p) \/ AddSeen(p) \/ RUnlock(p) \/ Label(p)
    \/ LoadLearned(p) \/ LoadSeen(p)

\* the positions of the steps that compute on the classifier or on a file
Computing == {"write", "decode", "read", "open", "encode"}

\* The Go scheduler runs every goroutine that can run, and sync.RWMutex hands
\* the lock to a goroutine that waits for it once the lock stays free. Nothing
\* obliges a goroutine to call. A computing step can run whenever its caller
\* is at its position and always moves the caller on, so its weak fairness is
\* that the caller is not at that position for ever.
FairSpec ==
    /\ ConcInit
    /\ [][ConcNext]_vars
    /\ \A p \in Procs :
          /\ WF_vars(Step(p))
          /\ \A at \in Computing : []<>(pc[p].at # at)

\* ------------------------------------------------------- a directory with a class file
\*
\* The same calls, made where an earlier classifier has left the file of a
\* class C that had learned the document [w] (WriteClassToFile, as in
\* TestClassByFile, where one classifier writes and another one reads).

DirInit ==
    /\ alive = FALSE
    /\ Classes = <<>>
    /\ datas = [c \in {} |-> newClassData]
    /\ learned = 0
    /\ seen = 0
    /\ tfIdf = FALSE
    /\ DidConvertTfIdf = FALSE
    /\ files = [c \in {"C"} |-> gobEncode(Learnt(newClassData, <<"w">>, FALSE))]
    /\ stream = <<>>
    /\ calls = 0
    /\ ret = Ret("none", "ok", "nil")
    /\ mu = Unlocked
    /\ pc = [p \in Procs |-> Idle]

DirSpec == DirInit /\ [][Next]_vars

\* ------------------------------------------------------- findMax alone
\*
\* findMax applied to score vectors of up to MaxScores float64 values; ret
\* holds the vector and then what findMax returns for it.

MaxScores == 3

\* a NaN, the two infinities and two finite values, as LogScores forms them
ScoreValues == {NaN, NInf, FromInt(-1), Zero, PInf}

ScoreVectors == UNION {[1..n -> ScoreValues] : n \in 1..MaxScores}

FindMaxInit ==
    /\ alive = FALSE
    /\ Classes = <<>>
    /\ datas = [c \in {} |-> newClassData]
    /\ learned = 0
    /\ seen = 0
    /\ tfIdf = FALSE
    /\ DidConvertTfIdf = FALSE
    /\ files = [c \in {} |-> <<>>]
    /\ stream = <<>>
    /\ calls = 0
    /\ mu = Unlocked
    /\ pc = [p \in Procs |-> Idle]
    /\ \E scores \in ScoreVectors : ret = [Ret("none", "ok", "nil") EXCEPT !.scores = scores]

ApplyFindMax ==
    /\ ret.op = "none"
    /\ ret' = [ret EXCEPT !.op = "findMax",
                          !.inx = findMax(ret.scores).inx,
                          !.strict = findMax(ret.scores).strict]
    /\ UNCHANGED <<alive, classifier, files, stream, calls, mu, pc>>

FindMaxNext == ApplyFindMax

FindMaxSpec == FindMaxInit /\ [][FindMaxNext]_vars

\* ------------------------------------------------------- properties

\* the step is a call of one of the three scoring operations
ScoringCall ==
    \E doc \in ScoreDocs : LogScores(doc) \/ ProbScores(doc) \/ SafeProbScores(doc)

\* C1: on a classifier built in TF-IDF mode and not yet converted, every call
\* of LogScores, ProbScores or SafeProbScores, whatever the document and
\* whatever was learned, observed or added before, fails (it panics), and the
\* failed call leaves the whole classifier as it was, the seen counter included.
C1_ScoringBeforeConvertFails ==
    [][(tfIdf /\ ~DidConvertTfIdf /\ ScoringCall)
          => (ret'.status = "panic" /\ classifier' = classifier)]_vars

\* C1: a scoring call has failed on an unconverted TF-IDF classifier that has
\* learned a document; nothing was counted as seen.
C1_Witness ==
    /\ alive /\ tfIdf /\ ~DidConvertTfIdf
    /\ learned > 0
    /\ ret.op \in ScoringOps /\ ret.status = "panic"
    /\ seen = 0

\* the step is a call of Learn or of ConvertTermsFreqToTfIdf
LearnOrConvertCall ==
    \/ ConvertTermsFreqToTfIdf
    \/ \E document \in LearnDocs, which \in ClassNames : Learn(document, which)

RetPair == [inx |-> ret.inx, strict |-> ret.strict]

\* what SafeProbScores must have returned, given the linear scores lin, their
\* sum, and the log-domain scores
SafeDecision(lin, sum, logs) ==
    /\ RetPair = findMax(logs)
    /\ (ret.err = "ErrUnderflow")
          <=> (FEq(sum, Zero) \/ findMax(Normalized(lin, sum)) # findMax(logs))
    /\ ret.err \in {"nil", "ErrUnderflow"}
    /\ ret.err = "nil" => ret.scores = Normalized(lin, sum)

\* C3: SafeProbScores returns the index and the strict flag of findMax on the
\* log-domain scores; it returns ErrUnderflow exactly when the sum of the
\* linear scores is zero or findMax of the normalized linear scores differs
\* from findMax of the log-domain scores; without an error the scores returned
\* are the linear scores divided by their sum.
C3_SafeProbScoresDecision ==
    (ret.op = "SafeProbScores" /\ ret.status = "ok")
        => SafeDecision(LinearScores(Classes, datas, ret.doc),
                        SumScores(LinearScores(Classes, datas, ret.doc), Zero),
                        LogDomainScores(Classes, datas, ret.doc))

\* C3: SafeProbScores has returned ErrUnderflow for the long document of
\* unseen words, whose linear scores are all zero.
C3_Witness ==
    /\ ret.op = "SafeProbScores" /\ ret.status = "ok"
    /\ ret.doc = LongDoc
    /\ ret.err = "ErrUnderflow"
    /\ \A i \in 1..Len(Classes) :
          LinearScores(Classes, datas, ret.doc)[i] = Zero

\* C4: when SafeProbScores reports no underflow, LogScores and ProbScores on
\* the same classifier and the same document return the same index as it does.
C4_ScoringOperationsAgree ==
    (ret.op = "SafeProbScores" /\ ret.status = "ok" /\ ret.err = "nil")
        => /\ LogScoresResult(Classes, datas, ret.doc).inx = ret.inx
           /\ ProbScoresResult(Classes, datas, ret.doc).inx = ret.inx

\* C4: SafeProbScores has returned the second class, strictly and without an
\* error, for a document of one learned word.
C4_Witness ==
    /\ ret.op = "SafeProbScores" /\ ret.status = "ok" /\ ret.err = "nil"
    /\ ret.doc = <<"w">>
    /\ ret.inx = 1 /\ ret.strict
    /\ learned > 0

\* what ProbScores must have returned, given the linear scores lin and their sum
ProbDecision(lin, sum) ==
    /\ (\A i \in 1..Len(lin) : FEq(lin[i], Zero))
          => /\ ret.scores = [i \in 1..Len(lin) |-> FDiv(One, FromInt(Len(lin)))]
             /\ ret.inx = 0
             /\ ~ret.strict
    /\ ~FEq(sum, Zero)
          => /\ ret.scores = Normalized(lin, sum)
             /\ RetPair = findMax(Normalized(lin, sum))

\* C5: when the linear score of every class is zero ProbScores returns 1/n for
\* each of the n classes, index 0 and strict = false; when the sum of the
\* linear scores is not zero it returns every score divided by the sum and
\* the pair of findMax on those normalized scores.
C5_ProbScoresUnderflow ==
    (ret.op = "ProbScores" /\ ret.status = "ok")
        => ProbDecision(LinearScores(Classes, datas, ret.doc),
                        SumScores(LinearScores(Classes, datas, ret.doc), Zero))

\* C5: ProbScores has returned 1/3 for each of three classes, for the long
\* document of unseen words.
C5_Witness ==
    /\ ret.op = "ProbScores" /\ ret.status = "ok"
    /\ ret.doc = LongDoc
    /\ Len(Classes) = 3
    /\ ret.scores = [i \in 1..3 |-> FromRat(1, 3)]
    /\ ret.inx = 0 /\ ~ret.strict

\* two of the classes given are equal
HasDuplicate(classes) ==
    \E i, j \in 1..Len(classes) : i # j /\ classes[i] = classes[j]

\* C6: a constructor given fewer than two classes, or two equal classes, fails
\* and returns no classifier; otherwise the classifier has the classes given,
\* in the order given, an empty class data with total 0 for each, learned = 0,
\* seen = 0, DidConvertTfIdf = false and tfIdf as requested.
C6_Construction ==
    [][\A mode \in BOOLEAN, classes \in CtorLists :
          newClassifier(mode, classes)
             => IF Len(classes) < 2 \/ HasDuplicate(classes)
                THEN ~alive' /\ ret'.status = "panic"
                ELSE /\ alive'
                     /\ ret'.status = "ok"
                     /\ Classes' = classes
                     /\ DOMAIN datas' = {classes[i] : i \in 1..Len(classes)}
                     /\ \A c \in DOMAIN datas' :
                           /\ DOMAIN datas'[c].Freqs = {}
                           /\ DOMAIN datas'[c].FreqTfs = {}
                           /\ datas'[c].Total = 0
                     /\ learned' = 0
                     /\ seen' = 0
                     /\ ~DidConvertTfIdf'
                     /\ tfIdf' = mode]_vars

\* C6: a TF-IDF classifier has just been constructed for the classes B, A.
C6_Witness ==
    /\ alive /\ tfIdf
    /\ ret.op = "newClassifier" /\ ret.status = "ok"
    /\ Classes = <<"B", "A">>

\* the words whose probability is asked for
ProbeWords == {"w", "x", Unseen}

\* 0 < p <= 1
InUnitInterval(p) == FLt(Zero, p) /\ (FLt(p, One) \/ FEq(p, One))

\* C7: in every state reached by Learn, Observe, AddClass and
\* ReadClassFromFile, getWordProb of every class and every word, seen or not,
\* is greater than 0 and at most 1.
C7_WordProbInUnitInterval ==
    (alive /\ ~DidConvertTfIdf)
        => \A c \in DOMAIN datas, word \in ProbeWords :
              InUnitInterval(getWordProb(datas[c], word))

\* C8: in every reachable state every entry of getPriors is greater than 0.
C8_PriorsPositive ==
    alive => \A i \in 1..Len(Classes) : FLt(Zero, getPriors(Classes, datas)[i])

\* every class has no word and total 0
NoTrainingData == \A c \in DOMAIN datas : datas[c] = newClassData

\* C9: getPriors returns (Total of class j + 1) / (sum of all Totals + number
\* of classes) at index j of the class order; the entries sum to 1; with no
\* training data every entry is 1/n for the current number n of classes.
C9_PriorsFormula ==
    alive =>
        /\ \A j \in 1..Len(Classes) :
              getPriors(Classes, datas)[j]
                  = FDiv(FromInt(datas[Classes[j]].Total + 1),
                         FromInt(SumTotals(Classes, datas, 1) + Len(Classes)))
        /\ FEq(SumScores(getPriors(Classes, datas), Zero), One)
        /\ NoTrainingData
              => \A j \in 1..Len(Classes) :
                    getPriors(Classes, datas)[j] = FDiv(One, FromInt(Len(Classes)))

\* the sum of the values of the map freqs over the words of S
RECURSIVE SumFreqs(_, _)
SumFreqs(freqs, S) ==
    IF S = {} THEN Zero
    ELSE LET word == CHOOSE x \in S : TRUE
         IN  FAdd(freqs[word], SumFreqs(freqs, S \ {word}))

Repeat(word, count) == [i \in 1..count |-> word]

\* C11: for every state, class, word and count >= 0, Observe(word, count,
\* class) leaves the data of every class (Freqs with its set of keys, FreqTfs,
\* Total) as Learn of the document of count repetitions of word into that
\* class would leave it, and leaves learned alone.
C11_ObserveIsLearnOfRepeats ==
    [][\A word \in ObserveWords, count \in Counts, which \in ClassNames :
          (count >= 0 /\ Observe(word, count, which) /\ ret'.status = "ok")
             => /\ datas' = [datas EXCEPT ![which] =
                                Learnt(datas[which], Repeat(word, count), tfIdf)]
                /\ learned' = learned]_vars

\* the step is a Learn that completed
CompletedLearn ==
    /\ ret'.op = "Learn" /\ ret'.status = "ok"
    /\ \E document \in LearnDocs, which \in ClassNames : Learn(document, which)

\* the step is a ReadClassFromFile that succeeded
SuccessfulRead ==
    /\ ret'.op = "ReadClassFromFile" /\ ret'.status = "ok"
    /\ \E class \in FileNames : ReadClassFromFile(class)

\* C12: on a classifier built by NewClassifier or NewClassifierTfIdf, learned
\* grows by one with every Learn that completes (whatever the length of the
\* document) and with every ReadClassFromFile that succeeds, and no other
\* call, and no failed call, changes it.
C12_LearnedCounts ==
    [][ret'.op # "NewClassifierFromReader"
          => learned' = learned + IF CompletedLearn \/ SuccessfulRead THEN 1 ELSE 0]_vars

\* C12: learned is 2 after a document was learned and a class file was read.
C12_Witness ==
    /\ alive
    /\ learned = 2
    /\ ret.op = "ReadClassFromFile" /\ ret.status = "ok"
    /\ \E c \in DOMAIN datas : datas[c].Total > 0

\* C13: every scoring call that returns adds exactly 1 to seen, whatever the
\* document, and changes nothing else of the classifier: the class list, the
\* data of every class (no word is added by a lookup), learned and the two
\* mode flags stay as they were.
C13_ScoringCountsSeen ==
    [][(ret'.op \in ScoringOps /\ ret'.status = "ok" /\ ScoringCall)
          => /\ seen' = seen + 1
             /\ UNCHANGED <<Classes, datas, learned, tfIdf, DidConvertTfIdf>>]_vars

\* C13: seen is 2 after two scoring calls, the last of which returned
\* ErrUnderflow for the long document.
C13_Witness ==
    /\ seen = 2
    /\ ret.op = "SafeProbScores" /\ ret.status = "ok"
    /\ ret.err = "ErrUnderflow"
    /\ ret.doc = LongDoc

\* C14: AddClass returns ErrAlreadyConverted when DidConvertTfIdf is set
\* (also when the class exists) and ErrClassExists when the class has data in
\* the classifier; in both cases the whole classifier stays as it was;
\* otherwise it succeeds.
C14_AddClassErrors ==
    [][\A class \in ClassNames :
          AddClass(class)
             => IF DidConvertTfIdf
                THEN ret'.err = "ErrAlreadyConverted" /\ classifier' = classifier
                ELSE IF class \in DOMAIN datas
                THEN ret'.err = "ErrClassExists" /\ classifier' = classifier
                ELSE /\ ret'.status = "ok" /\ ret'.err = "nil"
                     /\ Classes' = Append(Classes, class)
                     /\ class \in DOMAIN datas']_vars

\* C14: AddClass has returned ErrAlreadyConverted on a converted classifier
\* that holds documents.
C14_Witness ==
    /\ alive /\ DidConvertTfIdf
    /\ learned > 0
    /\ ret.op = "AddClass" /\ ret.err = "ErrAlreadyConverted"

\* C15: serializing any reachable classifier (WriteGob, WriteToFile) and
\* deserializing the bytes (NewClassifierFromReader, NewClassifierFromFile)
\* gives a classifier with the same ordered class list, learned, seen,
\* per-class Freqs, FreqTfs and Total, tfIdf and DidConvertTfIdf: the bytes
\* WriteGob writes decode to the classifier that wrote them, and the classifier
\* NewClassifierFromReader returns is what the bytes decode to. The scoring
\* operations are functions of these fields, so they return the same results.
C15_GobRoundTrip ==
    [][/\ ret'.op = "WriteGob"
            => gobDecodeClassifier(ZeroState, stream')
                  = State(Classes, learned, seen, datas, tfIdf, DidConvertTfIdf)
       /\ ret'.op = "NewClassifierFromReader"
            => State(Classes', learned', seen', datas', tfIdf', DidConvertTfIdf')
                  = gobDecodeClassifier(ZeroState, stream)]_vars

\* C15: a classifier that learned and scored was written and read back
C15_Witness ==
    /\ ret.op = "NewClassifierFromReader"
    /\ learned > 0
    /\ seen > 0
    /\ \E c \in DOMAIN datas : datas[c].Total > 0
    /\ stream = writeGobLocked(Classes, learned, seen, datas, tfIdf, DidConvertTfIdf)

\* C16: WriteClassToFile(name) leaves in the file of that name bytes that
\* decode to the class's data; a successful ReadClassFromFile(class) puts what
\* the file of that name decodes to in the place of that class's data and
\* adds exactly 1 to learned, and leaves the class list, the data of every
\* other class, seen, the two mode flags and the files as they were; a
\* ReadClassFromFile that fails (no file, or a file that does not decode)
\* leaves the whole classifier as it was, learned included.
C16_ReadClassFrame ==
    [][/\ (ret'.op = "WriteClassToFile" /\ ret'.status = "ok")
            => \E name \in FileNames :
                  /\ WriteClassToFile(name)
                  /\ gobDecodeInto(newClassData, files'[name]) = datas[name]
       /\ ret'.op = "ReadClassFromFile"
            => \E class \in FileNames :
                  /\ ReadClassFromFile(class)
                  /\ IF ret'.status = "ok"
                     THEN /\ datas'[class] = gobDecodeInto(newClassData, files[class])
                          /\ DOMAIN datas' = DOMAIN datas \cup {class}
                          /\ \A c \in DOMAIN datas \ {class} : datas'[c] = datas[c]
                          /\ learned' = learned + 1
                          /\ UNCHANGED <<Classes, seen, tfIdf, DidConvertTfIdf, files>>
                     ELSE classifier' = classifier]_vars

\* C16: class A was read back from its file after another call had counted
\* in learned: A's data is what the file holds, learned is 2 and another
\* class keeps the data it has learned
C16_Witness ==
    /\ ret.op = "ReadClassFromFile"
    /\ ret.status = "ok"
    /\ learned = 2
    /\ "A" \in DOMAIN files
    /\ "A" \in DOMAIN datas
    /\ datas["A"] = gobDecodeInto(newClassData, files["A"])
    /\ \E c \in DOMAIN datas \ {"A"} : datas[c].Total > 0

\* caller p is inside the critical section of a mutating method
InCritical(p) == pc[p].at \in {"write", "Unlock"}

\* C17: under every interleaving of the callers, Learn, Observe, AddClass,
\* ConvertTermsFreqToTfIdf and ReadClassFromFile change the classifier only
\* while their caller holds the lock exclusively: a caller inside such a
\* critical section is the writer of the lock, no other caller is inside one,
\* and no caller holds the lock in shared mode; and every step that changes
\* the class list, the class data, learned or DidConvertTfIdf is taken by the
\* caller inside the critical section.
C17_MutatorsAreExclusive ==
    /\ [](\A p \in Procs :
              InCritical(p)
                 => /\ pc[p].op \in ExclusiveOps \cup {"ReadClassFromFile"}
                    /\ mu.writer = p
                    /\ mu.readers = {}
                    /\ \A q \in Procs \ {p} : ~InCritical(q))
    /\ [][<<Classes, datas, learned, tfIdf, DidConvertTfIdf>>'
              # <<Classes, datas, learned, tfIdf, DidConvertTfIdf>>
            => \E p \in Procs : /\ pc[p].at = "write"
                                 /\ mu.writer = p
                                 /\ mu.readers = {}]_vars

\* C17: a Learn has written and still holds the lock while another caller
\* waits to take it
C17_Witness ==
    \E p, q \in Procs :
        /\ pc[p].op = "Learn"
        /\ pc[p].at = "Unlock"
        /\ learned = 1
        /\ pc[q].at \in {"Lock", "RLock"}

\* the steps of LogScores, ProbScores, SafeProbScores, Classify, ClassifyProb,
\* ClassifySafe, Learned, WordCount, WordFrequencies and WordsByClass that
\* read the class list, the class data or learned
ReadsState(p) == pc[p].at \in {"read", "label", "load"}

\* C18: no scoring or introspection operation is about to read the class
\* list, the class data or the learned counter while a mutating operation is
\* inside its critical section, about to write them.
C18_ReadsExcludeWriters ==
    \A p, q \in Procs : ~(ReadsState(p) /\ pc[q].at = "write")

\* C19: no persistence write operation is encoding the classifier while a
\* mutating operation is inside its critical section, about to change it.
C19_EncodingExcludesWriters ==
    \A p, q \in Procs : ~(pc[p].at = "encode" /\ pc[q].at = "write")

\* the callers in a scoring call that are at one of the given steps
ScoringAt(steps) ==
    {q \in Procs : pc[q].op \in ScoringOps \cup ClassifyOps /\ pc[q].at \in steps}

\* C20: every scoring call adds exactly 1 to seen, whatever the other callers
\* do at the same time, and nothing else changes seen, so k concurrent scoring
\* calls that return have added k; Seen() can return at any moment, whoever
\* holds the lock, does not touch the lock, and returns a value that is at
\* least seen without the calls in flight that have counted and at most seen
\* with the calls in flight that have not counted yet.
C20_SeenCountsEveryScoring ==
    /\ [](\A p \in Procs : pc[p].at = "atomicLoad" => ENABLED LoadSeen(p))
    /\ [][/\ seen' = seen + Cardinality({p \in Procs : /\ pc[p].at = "add"
                                                        /\ pc'[p].at # "add"})
           /\ \A p \in Procs :
                 (pc[p].at = "atomicLoad" /\ pc'[p].at = "idle")
                    => /\ mu' = mu
                       /\ ret'.op = "Seen"
                       /\ ret'.val >= seen - Cardinality(ScoringAt({"RUnlock"}))
                       /\ ret'.val <= seen + Cardinality(ScoringAt({"RLock", "read", "add"}))]_vars

\* C20: two scoring calls hold the lock in shared mode at the same time, both
\* have counted, and seen is 2
C20_Witness ==
    /\ seen = 2
    /\ mu.readers = Procs
    /\ \A p \in Procs : pc[p].op \in ScoringOps /\ pc[p].at = "RUnlock"

\* C21: on a TF-IDF classifier that has been converted, no call of Learn or
\* Observe, whatever its arguments, changes the Total, the Freqs or the
\* FreqTfs of any class: the training statistics stay as the conversion
\* left them.
C21_ConvertedStatisticsClosed ==
    [][(tfIdf /\ DidConvertTfIdf /\ ret'.op \in {"Learn", "Observe"})
          => datas' = datas]_vars

\* the indexes that hold the maximum value of scores: the entries that are
\* numbers and that no other number of the vector exceeds (a NaN is unordered
\* with every value and is no maximum)
MaxIndexes(scores) ==
    {i \in 1..Len(scores) :
        /\ scores[i].t # "nan"
        /\ \A j \in 1..Len(scores) : scores[j].t = "nan" \/ ~FLt(scores[i], scores[j])}

\* C22: for every non-empty score vector findMax returns the lowest index
\* that holds the maximum value, and strict is true exactly when one index
\* only holds that maximum (a vector of NaNs alone has no maximum and is
\* left out).
C22_FindMaxLowestAndStrict ==
    (ret.op = "findMax" /\ MaxIndexes(ret.scores) # {})
       => /\ ret.inx + 1 \in MaxIndexes(ret.scores)
          /\ \A j \in MaxIndexes(ret.scores) : ret.inx + 1 <= j
          /\ ret.strict <=> Cardinality(MaxIndexes(ret.scores)) = 1

\* the class has counted the word: its frequency is above zero
HasSeen(data, word) == FLt(Zero, MapGet(data.Freqs, word, Zero))

\* all classes have the same Total and the same number of words
SameShape ==
    \A c, d \in DOMAIN datas :
        /\ datas[c].Total = datas[d].Total
        /\ Cardinality(DOMAIN datas[c].Freqs) = Cardinality(DOMAIN datas[d].Freqs)

\* the classes that have seen a word of the document
Seers(doc) ==
    {i \in 1..Len(Classes) : \E k \in 1..Len(doc) : HasSeen(datas[Classes[i]], doc[k])}

\* C23: in a non-TF-IDF classifier whose classes all have the same Total and
\* the same vocabulary size, LogScores and ProbScores give a document of
\* words that no class has seen equal scores for all classes, strict = false
\* and index 0; when exactly one class has seen a word of the document, that
\* class has the strictly highest score and strict = true.
C23_UnseenWordsTie ==
    (/\ ret.op \in {"LogScores", "ProbScores"}
     /\ ret.status = "ok"
     /\ ~tfIdf
     /\ DOMAIN datas = Range1(Classes)
     /\ SameShape)
       => /\ Seers(ret.doc) = {}
               => /\ \A i, j \in 1..Len(ret.scores) : FEq(ret.scores[i], ret.scores[j])
                  /\ ret.inx = 0
                  /\ ~ret.strict
          /\ \A i \in 1..Len(Classes) :
                Seers(ret.doc) = {i}
                   => /\ ret.inx = i - 1
                      /\ ret.strict
                      /\ \A j \in 1..Len(ret.scores) :
                            j # i => FLt(ret.scores[j], ret.scores[i])

\* C24: a successful ConvertTermsFreqToTfIdf replaces every recorded TF
\* sample tf of every word of every class by
\* log1p(tf) * log1p(learned / Total of that class), with the classifier's
\* learned counter and the class's own Total, and sets Freqs[word] to the sum
\* of the replaced samples of that word.
C24_ConvertFormula ==
    [][(ret'.op = "ConvertTermsFreqToTfIdf" /\ ret'.status = "ok")
          => \A c \in DOMAIN datas :
                /\ DOMAIN datas'[c].FreqTfs = DOMAIN datas[c].FreqTfs
                /\ \A word \in DOMAIN datas[c].FreqTfs :
                      /\ Len(datas'[c].FreqTfs[word]) = Len(datas[c].FreqTfs[word])
                      /\ \A i \in 1..Len(datas[c].FreqTfs[word]) :
                            datas'[c].FreqTfs[word][i]
                               = FMul(Log1p(datas[c].FreqTfs[word][i]),
                                      Log1p(FDiv(FromInt(learned),
                                                 FromInt(datas[c].Total))))
                      /\ datas'[c].Freqs[word]
                            = SumSamples(datas'[c].FreqTfs[word], Zero)]_vars

\* C24: a conversion has replaced two samples of one word, in a class whose
\* Total differs from learned
C24_Witness ==
    /\ ret.op = "ConvertTermsFreqToTfIdf"
    /\ ret.status = "ok"
    /\ learned = 2
    /\ \E c \in DOMAIN datas :
          /\ datas[c].Total > learned
          /\ \E word \in DOMAIN datas[c].FreqTfs : Len(datas[c].FreqTfs[word]) = 2

\* the samples of word in data, none when the word has no entry
Samples(data, word) == MapGet(data.FreqTfs, word, <<>>)

\* C25: a Learn(document, which) that returns, on a TF-IDF classifier not yet
\* converted, appends to FreqTfs[word] of the class, for every distinct word
\* of the document, exactly one sample, occurrences of the word in the
\* document / length of the document, and leaves the samples of every other
\* word alone (an empty document adds none); on a non-TF-IDF classifier it
\* leaves FreqTfs alone; in both modes it adds the occurrences of each word to
\* Freqs[word] and the length of the document to Total. Observe, AddClass,
\* the scoring operations and the writes to files never change the samples
\* of a class.
C25_LearnAppendsOneSamplePerWord ==
    [][/\ (ret'.op = "Learn" /\ ret'.status = "ok")
            => \A document \in LearnDocs, which \in DOMAIN datas :
                  Learn(document, which)
                     => LET old == datas[which]
                            new == datas'[which]
                            words == Range1(document)
                        IN  /\ new.Total = old.Total + Len(document)
                            /\ DOMAIN new.Freqs = DOMAIN old.Freqs \cup words
                            /\ \A word \in DOMAIN new.Freqs :
                                  FEq(new.Freqs[word],
                                      FAdd(MapGet(old.Freqs, word, Zero),
                                           FromInt(Occurrences(document, word))))
                            /\ IF tfIdf
                               THEN /\ DOMAIN new.FreqTfs = DOMAIN old.FreqTfs \cup words
                                    /\ \A word \in words :
                                          new.FreqTfs[word]
                                             = Append(Samples(old, word),
                                                      FDiv(FromInt(Occurrences(document, word)),
                                                           FromInt(Len(document))))
                                    /\ \A word \in DOMAIN old.FreqTfs \ words :
                                          new.FreqTfs[word] = old.FreqTfs[word]
                               ELSE new.FreqTfs = old.FreqTfs
       /\ ret'.op \in {"Observe", "AddClass", "WriteClassToFile", "WriteGob"} \cup ScoringOps
            => \A c \in DOMAIN datas : datas'[c].FreqTfs = datas[c].FreqTfs]_vars

\* C25: a second document with the word w was learned into a class of a
\* TF-IDF classifier: w has two samples there, the second one 2/3
C25_Witness ==
    /\ tfIdf /\ ~DidConvertTfIdf
    /\ ret.op = "Learn" /\ ret.status = "ok"
    /\ \E c \in DOMAIN datas :
          /\ Len(Samples(datas[c], "w")) = 2
          /\ Samples(datas[c], "w")[2] = FDiv(FromInt(2), FromInt(3))
          /\ Len(Samples(datas[c], "x")) = 1

\* C26: a successful ConvertTermsFreqToTfIdf sets DidConvertTfIdf and leaves
\* unchanged the class list, learned, seen, tfIdf, and for every class its
\* Total, the words that have TF samples and how many each word has, and the
\* Freqs entry of every word without a TF sample.
C26_ConvertFrame ==
    [][(ret'.op = "ConvertTermsFreqToTfIdf" /\ ret'.status = "ok")
          => /\ DidConvertTfIdf'
             /\ UNCHANGED <<Classes, learned, seen, tfIdf>>
             /\ DOMAIN datas' = DOMAIN datas
             /\ \A c \in DOMAIN datas :
                   /\ datas'[c].Total = datas[c].Total
                   /\ DOMAIN datas'[c].FreqTfs = DOMAIN datas[c].FreqTfs
                   /\ DOMAIN datas'[c].Freqs = DOMAIN datas[c].Freqs
                   /\ \A word \in DOMAIN datas[c].FreqTfs :
                         Len(datas'[c].FreqTfs[word]) = Len(datas[c].FreqTfs[word])
                   /\ \A word \in DOMAIN datas[c].Freqs \ DOMAIN datas[c].FreqTfs :
                         datas'[c].Freqs[word] = datas[c].Freqs[word]]_vars

\* C26: a TF-IDF classifier was converted in which one class holds a word
\* counted by Observe only and another class holds a learned word
C26_Witness ==
    /\ tfIdf /\ DidConvertTfIdf
    /\ ret.op = "ConvertTermsFreqToTfIdf" /\ ret.status = "ok"
    /\ \E c, d \in DOMAIN datas :
          /\ "w" \in DOMAIN datas[c].Freqs \ DOMAIN datas[c].FreqTfs
          /\ datas[c].Freqs["w"] = FromInt(2)
          /\ datas[d].FreqTfs # EmptyMap

\* C27: on one classifier the ordered class list changes only by an AddClass
\* that succeeds, which appends the new class at the end with an empty
\* classData; Learn, Observe, ConvertTermsFreqToTfIdf, ReadClassFromFile, the
\* scoring operations, the writes and an AddClass that fails leave the list
\* as it is, so no class changes its index; and every score vector returned
\* has one entry per class of the list, the entry i of LogScores being the
\* score of the class at index i.
C27_ClassListGrowsAtEnd ==
    [][ret'.op \notin {"newClassifier", "NewClassifierFromReader"}
          => /\ IF ret'.op = "AddClass" /\ ret'.status = "ok"
                THEN \E class \in ClassNames \ Range1(Classes) :
                        /\ Classes' = Append(Classes, class)
                        /\ datas'[class] = newClassData
                        /\ \A c \in DOMAIN datas : datas'[c] = datas[c]
                ELSE Classes' = Classes
             /\ (ret'.op \in ScoringOps /\ ret'.status = "ok")
                   => /\ Len(ret'.scores) = Len(Classes)
                      /\ ret'.op = "LogScores"
                            => \A i \in 1..Len(Classes) :
                                  ret'.scores[i]
                                     = LogSum(Log(getPriors(Classes, datas)[i]),
                                              datas[Classes[i]], ret'.doc)]_vars

\* C27: a class was added to a trained classifier and a scoring call has
\* returned three scores, the classes of construction still first
C27_Witness ==
    /\ Classes = <<"A", "B", "C">>
    /\ learned > 0
    /\ ret.op \in ScoringOps /\ ret.status = "ok"
    /\ Len(ret.scores) = 3

\* C28: in every state of a constructed classifier the class list has at
\* least 2 classes, no class twice, and the classes that have a classData
\* are exactly the classes of the list.
C28_DataExactlyForListedClasses ==
    alive
       => /\ Len(Classes) >= 2
          /\ Cardinality(Range1(Classes)) = Len(Classes)
          /\ DOMAIN datas = Range1(Classes)

\* C29: a classifier constructed in non-TF-IDF mode never has
\* DidConvertTfIdf set (DidConvertTfIdf implies tfIdf), and AddClass on it
\* never returns ErrAlreadyConverted.
C29_OnlyTfIdfConverts ==
    /\ DidConvertTfIdf => tfIdf
    /\ ~(~tfIdf /\ ret.op = "AddClass" /\ ret.err = "ErrAlreadyConverted")

\* caller p holds the lock, in either mode
Holds(p) == mu.writer = p \/ p \in mu.readers

\* C30: a caller that is outside every call holds no lock, whether its last
\* call returned or failed, and a caller that waits for the lock does not
\* hold it already; under fair scheduling every call that was begun
\* completes, whatever calls failed before.
C30_EveryCallCompletes ==
    /\ [](\A p \in Procs : pc[p].at \in {"idle", "Lock", "RLock"} => ~Holds(p))
    /\ \A p \in Procs : (pc[p].at # "idle") ~> (pc[p].at = "idle")

\* C30: a Learn on a converted TF-IDF classifier has failed, and all the
\* calls that were begun are over with the lock free
C30_Witness ==
    /\ tfIdf /\ DidConvertTfIdf
    /\ ret.op = "Learn" /\ ret.status = "panic"
    /\ calls = MaxCalls
    /\ mu = Unlocked
    /\ \A p \in Procs : pc[p].at = "idle"

====
